---- MODULE Spec2Model ----
(***************************************************************************)
(* HlsQualitySelectorPlugin (src/plugin.js): the quality menu of a video.js *)
(* player.  The plugin object holds bandwidthToNameMap and _currentQuality, *)
(* reads the streaming engine's manifest and rendition list, toggles the    *)
(* renditions' enabled flags and replaces the menu button's createItems.    *)
(*                                                                          *)
(* JavaScript values are encoded as follows.  In a slot that holds a number *)
(* the value undefined is Undefined and the string 'auto' is Auto; numbers  *)
(* are themselves.  In a slot that holds a string (a label, a NAME) the     *)
(* value undefined is UndefinedStr.  Property keys are strings, a number is *)
(* turned into its key by ToString and undefined into "undefined".          *)
(*                                                                          *)
(* The text and the pressed state of the button belong to the widget; no   *)
(* operation of the plugin reads them back and they are not part of the    *)
(* state.                                                                   *)
(***************************************************************************)
EXTENDS Integers, Sequences, FiniteSets, TLC

\* Bounds of the model.
MaxPix == 2        \* widths and heights are 1..MaxPix
MaxBw == 2         \* bandwidths are 1..MaxBw
MaxLevels == 2     \* the engine reports at most MaxLevels renditions
MaxManifest == 1   \* a manifest lists at most MaxManifest playlists

\* undefined and 'auto' where a number can stand, undefined where a string can.
Undefined == -1
Auto == -2
UndefinedStr == "undefined"

\* The NAME attributes a manifest uses.
Names == {"720p", "1080p"}

VARIABLES
  manifest,            \* the engine's `playlists`: [shape, list]
  levels,              \* player.qualityLevels(): the engine's rendition list
  bandwidthToNameMap,  \* this.bandwidthToNameMap: [isNull, obj]
  currentQuality,      \* this._currentQuality
  createItems,         \* this._qualityButton.createItems: [replaced, items]
  op,                  \* the operation that ran last
  ret,                 \* its return value
  threw,               \* whether it ended in a TypeError
  lastQuality          \* history: the argument of the latest setQuality call

vars == <<manifest, levels, bandwidthToNameMap, currentQuality, createItems,
          op, ret, threw, lastQuality>>

-----------------------------------------------------------------------------
\* The engine's data.

Pixels == 1..MaxPix
Bandwidths == 1..MaxBw

\* A rendition as the engine reports it: a positive bandwidth, a width and a
\* height or neither (the engine takes both from one RESOLUTION attribute),
\* and enabled.
Renditions ==
  [width : Pixels, height : Pixels, bandwidth : Bandwidths, enabled : {TRUE}]
  \cup [width : {Undefined}, height : {Undefined}, bandwidth : Bandwidths,
        enabled : {TRUE}]

\* One element of the manifest's playlist array.
PlaylistEntries ==
  [kind : {"nonobject", "null", "noattributes", "nullattributes"},
   NAME : {UndefinedStr}, BANDWIDTH : {Undefined}]
  \cup [kind : {"attributes"}, NAME : Names \cup {UndefinedStr},
        BANDWIDTH : Bandwidths \cup {Undefined}]

\* The sequences over S of length at most n.
SeqsUpTo(S, n) == UNION {[1..k -> S] : k \in 0..n}

\* The engine's `playlists`: undefined, an array, or an object whose master
\* has a playlists array or none.
Manifests ==
  [shape : {"undefined", "masterNoPlaylists"}, list : {<<>>}]
  \cup [shape : {"flat", "master"}, list : SeqsUpTo(PlaylistEntries, MaxManifest)]

\* The values a viewer's selection can carry.
Qualities == {Auto, 0} \cup Pixels \cup Bandwidths

-----------------------------------------------------------------------------
\* JavaScript primitives.

\* !x for a number slot.
Falsy(x) == x = Undefined \/ x = 0

\* a > b: a comparison with undefined is false.
Gt(a, b) == a # Undefined /\ b # Undefined /\ a > b

\* a < b
Lt(a, b) == a # Undefined /\ b # Undefined /\ a < b

\* The property key of a value: String(x).
KeyOf(x) == IF x = Undefined THEN "undefined" ELSE ToString(x)

\* obj[key]
Lookup(obj, key) == IF key \in DOMAIN obj THEN obj[key] ELSE UndefinedStr

\* {} and the null the constructor stores.
EmptyObj == [k \in {} |-> UndefinedStr]
NullMap == [isNull |-> TRUE, obj |-> EmptyObj]

-----------------------------------------------------------------------------
\* Rendition catalog.

\* getMasterPlaylists: master.playlists of a nested manifest, the array
\* itself of a flat one, [] when either is missing.
GetMasterPlaylists(m) ==
  CASE m.shape = "master" -> m.list
    [] m.shape = "masterNoPlaylists" -> <<>>
    [] m.shape = "flat" -> m.list
    [] OTHER -> <<>>

\* Whether one step of the reduce callback ends in a TypeError: typeof null
\* is 'object', so a null playlist has its attributes read and null
\* attributes are destructured.
ReduceThrows(playlist) == playlist.kind \in {"null", "nullattributes"}

\* The reduce callback on a playlist that does not throw.
ReduceStep(acc, playlist) ==
  IF playlist.kind = "attributes"
    THEN (KeyOf(playlist.BANDWIDTH) :> playlist.NAME) @@ acc
    ELSE acc

RECURSIVE Reduce(_, _)
\* playlists.reduce(callback, acc): [threw, obj]
Reduce(playlists, acc) ==
  IF playlists = <<>> THEN [threw |-> FALSE, obj |-> acc]
  ELSE IF ReduceThrows(Head(playlists)) THEN [threw |-> TRUE, obj |-> acc]
  ELSE Reduce(Tail(playlists), ReduceStep(acc, Head(playlists)))

\* The test of getBandwidthToNameMap as a test for a map without keys.
NeedsBuildEmptyIsFalsy(map) == map.isNull \/ DOMAIN map.obj = {}

\* !this.bandwidthToNameMap: null is falsy, every object is truthy.
NeedsBuild(map) == map.isNull

\* getBandwidthToNameMap: [threw, map], map being the field afterwards (and
\* the value returned when nothing is thrown).
GetBandwidthToNameMapResult(map, m) ==
  IF NeedsBuild(map)
    THEN LET built == Reduce(GetMasterPlaylists(m), EmptyObj)
         IN IF built.threw
              THEN [threw |-> TRUE, map |-> map]
              ELSE [threw |-> FALSE,
                    map |-> [isNull |-> FALSE, obj |-> built.obj]]
    ELSE [threw |-> FALSE, map |-> map]

-----------------------------------------------------------------------------
\* Menu synchronizer.

\* The first branch of getQualityMeta is taken.
LacksGeometry(item) == Falsy(item.width) \/ Falsy(item.height)

\* width > height ? height : width
PixelsOf(width, height) == IF Gt(width, height) THEN height ELSE width

\* getQualityMeta without the lookup of the name.
GetQualityMetaNoLookup(item, obj) ==
  IF LacksGeometry(item)
    THEN [label |-> UndefinedStr, value |-> item.bandwidth]
    ELSE [label |-> ToString(PixelsOf(item.width, item.height)) \o "p",
          value |-> item.bandwidth]

\* getQualityMeta, given the object getBandwidthToNameMap returns.
GetQualityMeta(item, obj) ==
  IF LacksGeometry(item)
    THEN LET key == IF Falsy(item.bandwidth) THEN Undefined
                    ELSE item.bandwidth
         IN [label |-> Lookup(obj, KeyOf(key)), value |-> item.bandwidth]
    ELSE [label |-> ToString(PixelsOf(item.width, item.height)) \o "p",
          value |-> item.bandwidth]

\* getQualityMenuItem: the menu item holds the {label, value, selected} it is
\* given; selected is FALSE where the source leaves it out.
GetQualityMenuItem(label, value, selected) ==
  [label |-> label, value |-> value, selected |-> selected]

RECURSIVE FillItems(_, _, _)
\* The loop of getLevelItems: items[value] is set by the first level that
\* has the value.  items is kept in insertion order.
FillItems(lv, obj, items) ==
  IF lv = <<>> THEN items
  ELSE LET meta == GetQualityMeta(Head(lv), obj)
           has == \E i \in 1..Len(items) :
                    KeyOf(items[i].value) = KeyOf(meta.value)
       IN FillItems(Tail(lv), obj,
                    IF has THEN items
                    ELSE Append(items,
                           GetQualityMenuItem(meta.label, meta.value, FALSE)))

RECURSIVE Ascending(_)
\* The items in ascending order of an integer value (selection sort of the
\* distinct integer keys).
Ascending(items) ==
  IF items = <<>> THEN <<>>
  ELSE LET i == CHOOSE i \in 1..Len(items) :
                  \A j \in 1..Len(items) : items[i].value <= items[j].value
       IN <<items[i]>> \o
          Ascending(SubSeq(items, 1, i - 1) \o SubSeq(items, i + 1, Len(items)))

\* Object.keys(items).map(key => items[key]): integer keys in ascending
\* order, then the other keys in insertion order.
ObjectValues(items) ==
  Ascending(SelectSeq(items, LAMBDA it : it.value # Undefined))
  \o SelectSeq(items, LAMBDA it : it.value = Undefined)

\* getLevelItems
GetLevelItems(lv, obj) == ObjectValues(FillItems(lv, obj, <<>>))

\* The comparator with its two results exchanged.
CompareReversed(current, next) ==
  IF Lt(current.value, next.value) THEN 1
  ELSE IF Gt(current.value, next.value) THEN -1
  ELSE 0

\* The comparator of levelItems.sort; every element is a menu item, so the
\* typeof test never returns.
Compare(current, next) ==
  IF Lt(current.value, next.value) THEN -1
  ELSE IF Gt(current.value, next.value) THEN 1
  ELSE 0

RECURSIVE Insert(_, _)
\* One step of the insertion sort: e goes behind the last element that the
\* comparator does not put after it.
Insert(sorted, e) ==
  IF sorted = <<>> THEN <<e>>
  ELSE IF Compare(sorted[Len(sorted)], e) > 0
    THEN Append(Insert(SubSeq(sorted, 1, Len(sorted) - 1), e),
                sorted[Len(sorted)])
    ELSE Append(sorted, e)

RECURSIVE Sort(_, _)
\* Array.prototype.sort with the comparator, on arrays this short a stable
\* insertion sort.  Sort(todo, done)
Sort(todo, done) ==
  IF todo = <<>> THEN done ELSE Sort(Tail(todo), Insert(done, Head(todo)))

\* The item pushed last.
AutoItem == GetQualityMenuItem("Auto", Auto, TRUE)

\* The auto item put first.
UnshiftAuto(items) == <<AutoItem>> \o items

\* levelItems.push(auto item)
PushAuto(items) == Append(items, AutoItem)

-----------------------------------------------------------------------------
\* Selection applier.

\* The loop of setQuality matching on the long side.
ApplyQualityLongSide(list, quality) ==
  [i \in 1..Len(list) |->
     [list[i] EXCEPT !.enabled =
        ((IF Gt(list[i].width, list[i].height)
            THEN list[i].width ELSE list[i].height) = quality
         \/ quality = Auto)]]

\* The loop of setQuality dropping the renditions that do not match.
ApplyQualityFilter(list, quality) ==
  SelectSeq([i \in 1..Len(list) |-> [list[i] EXCEPT !.enabled = TRUE]],
            LAMBDA r : PixelsOf(r.width, r.height) = quality \/ quality = Auto)

\* The loop of setQuality: only the enabled flags change.
ApplyQuality(list, quality) ==
  [i \in 1..Len(list) |->
     [list[i] EXCEPT !.enabled =
        (PixelsOf(list[i].width, list[i].height) = quality
         \/ quality = Auto)]]

\* getCurrentQuality: this._currentQuality || 'auto'
CurrentQualityOr(q) == IF Falsy(q) THEN Auto ELSE q

-----------------------------------------------------------------------------
\* The state after the constructor, for a manifest m.
InitWith(m) ==
  /\ manifest = m
  /\ levels = <<>>
  /\ bandwidthToNameMap = NullMap
  /\ currentQuality = Undefined
  /\ createItems = [replaced |-> FALSE, items |-> <<>>]
  /\ op = "constructor"
  /\ ret = Undefined
  /\ threw = FALSE
  /\ lastQuality = Undefined

\* The engine reports one more rendition r.
EngineAddLevel(r) ==
  /\ Len(levels) < MaxLevels
  /\ levels' = Append(levels, r)
  /\ op' = "addLevel"
  /\ ret' = Undefined
  /\ threw' = FALSE
  /\ UNCHANGED <<manifest, bandwidthToNameMap, currentQuality, createItems,
                 lastQuality>>

\* The engine replaces its manifest by m.
ManifestChange(m) ==
  /\ m # manifest
  /\ manifest' = m
  /\ op' = "manifestChange"
  /\ ret' = Undefined
  /\ threw' = FALSE
  /\ UNCHANGED <<levels, bandwidthToNameMap, currentQuality, createItems,
                 lastQuality>>

\* A call of getBandwidthToNameMap.
GetBandwidthToNameMap ==
  LET r == GetBandwidthToNameMapResult(bandwidthToNameMap, manifest)
  IN /\ bandwidthToNameMap' = r.map
     /\ op' = "getBandwidthToNameMap"
     /\ threw' = r.threw
     /\ ret' = IF r.threw THEN Undefined ELSE r.map
     /\ UNCHANGED <<manifest, levels, currentQuality, createItems,
                    lastQuality>>

\* The addqualitylevel handler.  getQualityMeta asks for the map at the
\* first level that lacks a resolution; a TypeError there ends the handler.
OnAddQualityLevel ==
  LET r == IF \E i \in 1..Len(levels) : LacksGeometry(levels[i])
             THEN GetBandwidthToNameMapResult(bandwidthToNameMap, manifest)
             ELSE [threw |-> FALSE, map |-> bandwidthToNameMap]
      levelItems == Sort(GetLevelItems(levels, r.map.obj), <<>>)
  IN /\ bandwidthToNameMap' = r.map
     /\ op' = "onAddQualityLevel"
     /\ threw' = r.threw
     /\ ret' = Undefined
     /\ createItems' = IF r.threw THEN createItems
                       ELSE [replaced |-> TRUE, items |-> PushAuto(levelItems)]
     /\ UNCHANGED <<manifest, levels, currentQuality, lastQuality>>

\* setQuality(quality)
SetQuality(quality) ==
  /\ currentQuality' = quality
  /\ levels' = ApplyQuality(levels, quality)
  /\ lastQuality' = quality
  /\ op' = "setQuality"
  /\ ret' = Undefined
  /\ threw' = FALSE
  /\ UNCHANGED <<manifest, bandwidthToNameMap, createItems>>

\* getCurrentQuality()
GetCurrentQuality ==
  /\ ret' = CurrentQualityOr(currentQuality)
  /\ op' = "getCurrentQuality"
  /\ threw' = FALSE
  /\ UNCHANGED <<manifest, levels, bandwidthToNameMap, currentQuality,
                 createItems, lastQuality>>

Init == \E m \in Manifests : InitWith(m)

\* One playback session: the manifest stays as it was found.
Next ==
  \/ \E r \in Renditions : EngineAddLevel(r)
  \/ OnAddQualityLevel
  \/ \E quality \in Qualities : SetQuality(quality)
  \/ GetCurrentQuality
  \/ GetBandwidthToNameMap

Spec == Init /\ [][Next]_vars

\* The renditions that matter to the catalog: without a resolution, and one
\* with.
CatalogRenditions ==
  {r \in Renditions :
     LacksGeometry(r) \/ (r.width = 1 /\ r.height = 1 /\ r.bandwidth = 1)}

\* A session in which the engine also replaces its manifest.
NextCatalog ==
  \/ \E r \in CatalogRenditions : EngineAddLevel(r)
  \/ \E m \in Manifests : ManifestChange(m)
  \/ GetBandwidthToNameMap
  \/ OnAddQualityLevel
  \/ \E quality \in Qualities : SetQuality(quality)

SpecCatalog == Init /\ [][NextCatalog]_vars

-----------------------------------------------------------------------------
\* The properties.

HasResolution(r) == r.width # Undefined /\ r.height # Undefined

\* The smaller of width and height.
ShortSide(r) == IF r.width <= r.height THEN r.width ELSE r.height

\* The published entries but the last.
LevelEntries ==
  SubSeq(createItems.items, 1, Len(createItems.items) - 1)

\* A discovery event has just published a menu.
Published == op = "onAddQualityLevel" /\ ~threw

\* C1: after setQuality(v) a rendition is enabled iff v is 'auto' or the
\* rendition has a resolution whose short side is v.
C1_SetQualityEnablesMatching ==
  op = "setQuality" =>
    \A i \in 1..Len(levels) :
      levels[i].enabled <=>
        (lastQuality = Auto
         \/ (HasResolution(levels[i]) /\ ShortSide(levels[i]) = lastQuality))

C1_Witness ==
  /\ op = "setQuality"
  /\ lastQuality \in Pixels
  /\ \E i \in 1..Len(levels) :
       /\ HasResolution(levels[i])
       /\ levels[i].width # levels[i].height
       /\ levels[i].enabled
  /\ \E i \in 1..Len(levels) :
       ~HasResolution(levels[i]) /\ ~levels[i].enabled

\* C2: every rendition with a resolution has a menu entry whose value is its
\* short side and whose label is that value and "p", and setQuality of that
\* value leaves the rendition enabled.
C2_EntryValueIsShortSide ==
  Published =>
    \A i \in 1..Len(levels) :
      HasResolution(levels[i]) =>
        \E j \in 1..Len(LevelEntries) :
          /\ LevelEntries[j].value = ShortSide(levels[i])
          /\ LevelEntries[j].label = ToString(ShortSide(levels[i])) \o "p"
          /\ ApplyQuality(levels, LevelEntries[j].value)[i].enabled

\* C3: getCurrentQuality returns 'auto' before the first setQuality and the
\* argument of the latest setQuality afterwards.
C3_CurrentQualityIsLastSet ==
  op = "getCurrentQuality" =>
    ret = IF lastQuality = Undefined THEN Auto ELSE lastQuality

\* C4: when every rendition has a resolution the menu has one entry other
\* than auto per distinct short side.
C4_OneEntryPerShortSide ==
  (Published /\ \A i \in 1..Len(levels) : HasResolution(levels[i])) =>
    Len(LevelEntries) =
      Cardinality({ShortSide(levels[i]) : i \in 1..Len(levels)})

\* C5: when no rendition has a resolution, every bandwidth of the list that
\* is a key of the map has exactly one entry, whose value is the bandwidth
\* and whose label is the name the map gives; no entry has another value.
C5_OneEntryPerMappedBandwidth ==
  (/\ Published
   /\ levels # <<>>
   /\ \A i \in 1..Len(levels) : ~HasResolution(levels[i])) =>
    /\ ~bandwidthToNameMap.isNull
    /\ \A j \in 1..Len(LevelEntries) :
         \E i \in 1..Len(levels) : LevelEntries[j].value = levels[i].bandwidth
    /\ \A i \in 1..Len(levels) :
         ToString(levels[i].bandwidth) \in DOMAIN bandwidthToNameMap.obj =>
           /\ Cardinality({j \in 1..Len(LevelEntries) :
                LevelEntries[j].value = levels[i].bandwidth}) = 1
           /\ \A j \in 1..Len(LevelEntries) :
                LevelEntries[j].value = levels[i].bandwidth =>
                  LevelEntries[j].label =
                    bandwidthToNameMap.obj[ToString(levels[i].bandwidth)]

C5_Witness ==
  /\ Published
  /\ Len(levels) = 2
  /\ \A i \in 1..Len(levels) : ~HasResolution(levels[i])
  /\ levels[1].bandwidth = levels[2].bandwidth
  /\ ToString(levels[1].bandwidth) \in DOMAIN bandwidthToNameMap.obj
  /\ Len(LevelEntries) = 1
  /\ LevelEntries[1].label \in Names

\* C6: a published menu ends with an entry of value 'auto' and has no other
\* entry of that value.
C6_EndsWithOneAuto ==
  createItems.replaced =>
    /\ createItems.items # <<>>
    /\ createItems.items[Len(createItems.items)].value = Auto
    /\ \A j \in 1..Len(LevelEntries) : LevelEntries[j].value # Auto

C6_Witness ==
  /\ Published
  /\ Len(createItems.items) = 3
  /\ createItems.items[3].value = Auto

\* C7: the published entries before the auto entry are in non-decreasing
\* order of value.
C7_EntriesAscending ==
  createItems.replaced =>
    \A j, k \in 1..Len(LevelEntries) :
      j < k => LevelEntries[j].value <= LevelEntries[k].value

C7_Witness ==
  /\ Published
  /\ Len(levels) = 2
  /\ levels[1].bandwidth > levels[2].bandwidth
  /\ Len(LevelEntries) = 2
  /\ LevelEntries[1].value < LevelEntries[2].value

\* C8: once the map is built no step changes it, and a later call of
\* getBandwidthToNameMap returns it.
C8_MapNeverRecomputed ==
  [][~bandwidthToNameMap.isNull =>
       /\ bandwidthToNameMap' = bandwidthToNameMap
       /\ op' = "getBandwidthToNameMap" =>
            (~threw' /\ ret' = bandwidthToNameMap)]_vars

\* The map was built from an empty manifest and is returned although the
\* manifest now has a name to give.
C8_Witness ==
  /\ op = "getBandwidthToNameMap"
  /\ ~threw
  /\ ~bandwidthToNameMap.isNull
  /\ DOMAIN bandwidthToNameMap.obj = {}
  /\ ret = bandwidthToNameMap
  /\ \E i \in 1..Len(GetMasterPlaylists(manifest)) :
       /\ GetMasterPlaylists(manifest)[i].kind = "attributes"
       /\ GetMasterPlaylists(manifest)[i].NAME \in Names
       /\ GetMasterPlaylists(manifest)[i].BANDWIDTH \in Bandwidths

\* An entry with attributes that have both NAME and BANDWIDTH.
WellFormed(playlist) ==
  /\ playlist.kind = "attributes"
  /\ playlist.NAME # UndefinedStr
  /\ playlist.BANDWIDTH # Undefined

\* C9: building the map raises no error, and the keys of the map are the
\* bandwidths of the well-formed entries, each with the entry's name.
C9_MalformedEntriesSkipped ==
  op = "getBandwidthToNameMap" =>
    LET list == GetMasterPlaylists(manifest)
    IN /\ ~threw
       /\ ~bandwidthToNameMap.isNull
       /\ DOMAIN bandwidthToNameMap.obj =
            {ToString(list[i].BANDWIDTH) :
               i \in {k \in 1..Len(list) : WellFormed(list[k])}}
       /\ \A i \in 1..Len(list) :
            WellFormed(list[i]) =>
              \E k \in i..Len(list) :
                /\ WellFormed(list[k])
                /\ list[k].BANDWIDTH = list[i].BANDWIDTH
                /\ bandwidthToNameMap.obj[ToString(list[i].BANDWIDTH)] =
                     list[k].NAME

\* C10: setQuality, onAddQualityLevel and getCurrentQuality keep the length
\* and order of the list and every width, height and bandwidth, and the
\* latter two keep every enabled flag as well.
C10_OnlyEnabledFlagsChange ==
  [][op' \in {"setQuality", "onAddQualityLevel", "getCurrentQuality"} =>
       /\ Len(levels') = Len(levels)
       /\ \A i \in 1..Len(levels) :
            /\ levels'[i].width = levels[i].width
            /\ levels'[i].height = levels[i].height
            /\ levels'[i].bandwidth = levels[i].bandwidth
       /\ op' # "setQuality" => levels' = levels]_vars

\* A discovery event after a selection: the rendition that does not match
\* stays disabled and the one reported since stays enabled.
C10_Witness ==
  /\ Published
  /\ lastQuality \in Pixels
  /\ Len(levels) = 2
  /\ ~levels[1].enabled
  /\ levels[2].enabled
  /\ HasResolution(levels[2])
  /\ ShortSide(levels[2]) # lastQuality

====
